---- MODULE Spec2Model ----
(***************************************************************************)
(* The job-status polling hook (src/hooks/useJobStatus.ts) as a state      *)
(* machine: one hook instance, the React state it owns, its two refs, the  *)
(* browser's interval timers, and the HTTP requests it has in flight.      *)
(* A step is one event-loop task: a render that re-runs the polling        *)
(* effect, a timer callback, a user call of refetch() / cancel(), or the   *)
(* continuation of an awaited fetch.                                       *)
(*                                                                         *)
(* Further parts, each with a specification of its own: the stage          *)
(* projection usePipelineStage (StageSpec), the logger (LoggerSpec), and   *)
(* the hook in an event loop that runs queued timer callbacks (QueueSpec). *)
(***************************************************************************)
EXTENDS Integers, FiniteSets, Sequences, TLC

\* ---------------------------------------------------------------- bounds
MaxInFlight == 2
MaxTimers == 2
MaxLogCalls == 3

\* ------------------------------------------------------------- constants
Null == "null"

\* the job state before any payload was stored (useState(null))
NoJob == [id |-> Null, status |-> Null]

\* usePipelineStage has not been called; the logger module is not loaded
NoStageCall == [version |-> Null]
NoLogState == [mode |-> Null]
NoDashboard == [phase |-> Null]
NoRunsPage == [phase |-> Null]
NoCsv == [available |-> FALSE, tables |-> <<>>]
NoIntegrityCall ==
  [called |-> FALSE, pages |-> <<>>, figures |-> <<>>, csvTables |-> NoCsv]
JobIdSeq == <<"A", "B">>
JobIds == {"A", "B"}

JobStatus ==
  {"pending", "downloading", "running", "classification_pending", "uploading",
   "completed", "failed", "cancellation_requested", "cancelled"}

TERMINAL_STATUSES == {"completed", "failed", "cancelled"}

\* what GET /api/jobs/{id} can carry in its status field
ApiStatuses == JobStatus \cup {"classification_complete"}

\* who awaits a GET: the hook itself (effect, timer, refetch()) or a cancel()
Origins == {"hook", "cancel"}
FetchKeySeq ==
  <<<<"A", "hook">>, <<"A", "cancel">>, <<"B", "hook">>, <<"B", "cancel">>>>
FetchFailures == {"404", "http", "network", "decode"}
PostFailures == {"http", "network"}

VARIABLES
  phase,          \* "init" (rendered, effect not yet run), "mounted", "unmounted"
  jobId,          \* prop: the job id, or Null
  enabled,        \* option (the value of pollInterval, the other option, is
                  \* not kept: time is not measured, only a change counts)
  job,            \* useState: NoJob or the payload [id, status]
  error,          \* useState: Null or a message
  isLoading,      \* useState
  isPolling,      \* useState
  isTerminalRef,  \* useRef(false)
  intervalRef,    \* useRef(null): 0 or a timer id
  timers,         \* the live interval timers: [id, jid], jid the job id the
                  \* callback's fetchJob closed over
  inflight,       \* GETs awaiting an answer: <<captured job id, origin>> -> count
  posts,          \* cancel POSTs awaiting an answer: captured job id -> count
  last,           \* the step just taken: [op, gets, ret]
  stageCall,      \* the last call of usePipelineStage: NoStageCall or
                  \* [version, status, view]
  logState,       \* src/lib/logger.ts with its environment and the console
  tickQueue,      \* the job id of an interval callback the event loop has
                  \* queued and not yet run, or Null
  dashboard,      \* DashboardPage: its polling state, timers and poll rounds
  runsPage,       \* RunsPage: its job list, timer and list fetches
  integrityCall   \* the last call of calculatePageIntegrity: its arguments
                  \* and its result

vars == <<phase, jobId, enabled, job, error, isLoading, isPolling,
          isTerminalRef, intervalRef, timers, inflight, posts, last,
          stageCall, logState, tickQueue,
          dashboard, runsPage, integrityCall>>

\* the pages and the integrity calculation
pages == <<dashboard, runsPage, integrityCall>>

\* none of them is rendered or called
PagesIdle ==
  /\ dashboard = NoDashboard
  /\ runsPage = NoRunsPage
  /\ integrityCall = NoIntegrityCall

\* what lies outside the polling hook
outsideHook == <<stageCall, logState, tickQueue,
                 dashboard, runsPage, integrityCall>>

\* ---------------------------------------------------------------- helpers
\* the sum of f over the keys listed in seq, from index i on
RECURSIVE SumFrom(_, _, _)
SumFrom(f, seq, i) ==
  IF i > Len(seq) THEN 0 ELSE f[seq[i]] + SumFrom(f, seq, i + 1)

FetchKeys == JobIds \X Origins

CountGets(inf) == SumFrom(inf, FetchKeySeq, 1)
CountPosts(ps) == SumFrom(ps, JobIdSeq, 1)

InFlightCount == CountGets(inflight)
PostCount == CountPosts(posts)

NoGets == [k \in FetchKeys |-> 0]
NoPosts == [j \in JobIds |-> 0]

\* requests of either kind awaiting an answer
Outstanding == InFlightCount + PostCount

Step(op, gets, ret) == [op |-> op, gets |-> gets, ret |-> ret]

\* a setter that never takes effect
SetStateDropped(ph, cur, new) == cur

\* a state setter called on a component that is no longer mounted is dropped
SetState(ph, cur, new) == IF ph = "mounted" THEN new ELSE cur

\* a terminal set that forgets "cancelled"
IsTerminalNoCancelled(status) == status \in {"completed", "failed"}

\* a terminal set that also stops at classification_complete
IsTerminalWithClassification(status) ==
  status \in TERMINAL_STATUSES \cup {"classification_complete"}

IsTerminal(status) == status \in TERMINAL_STATUSES

\* fetchJob without the terminal check
WillFetchUnguarded(jid, terminal) == jid # Null

\* fetchJob's two early returns
WillFetch(jid, terminal) == jid # Null /\ ~terminal

\* the awaited fetch() of a GET with key k settles
Settle(k) == inflight[k] > 0 /\ inflight' = [inflight EXCEPT ![k] = @ - 1]

\* the awaited fetch() of a cancel POST for job id j settles
SettlePost(j) == posts[j] > 0 /\ posts' = [posts EXCEPT ![j] = @ - 1]

IssueGet(inf, jid, origin) == [inf EXCEPT ![<<jid, origin>>] = @ + 1]

\* a clearInterval that leaves the timer running
ClearIntervalNoop(ts, ref) == ts

\* clearInterval(intervalRef.current)
ClearInterval(ts, ref) == {t \in ts : t.id # ref}

\* the handle setInterval returns: an id no live timer has
FreshId(ts) == CHOOSE i \in 1..MaxTimers :
                 /\ \A t \in ts : t.id # i
                 /\ \A k \in 1..(i - 1) : \E t \in ts : t.id = k

\* an effect that leaves the flag as it finds it
ResetTerminalKept(cur) == cur

\* the value the effect writes to isTerminalRef.current on activation
ResetTerminal(cur) == FALSE

\* the polling effect guard
Activates(j, e) == j # Null /\ e

\* err.message of an error thrown by fetch() or response.json()
ThrownMessage == "err.message"

FetchErrorMessage(kind) ==
  CASE kind = "404" -> "Job not found"
    [] kind = "http" -> "Failed to fetch job"
    [] kind = "network" -> ThrownMessage
    [] kind = "decode" -> ThrownMessage

CancelErrorMessage(kind) ==
  CASE kind = "http" -> "Failed to cancel job"
    [] kind = "network" -> ThrownMessage

\* ------------------------------------------------------------------- Init
Init ==
  /\ phase = "init"
  /\ jobId \in JobIds \cup {Null}
  /\ enabled \in BOOLEAN
  /\ job = NoJob
  /\ error = Null
  /\ isLoading = FALSE
  /\ isPolling = FALSE
  /\ isTerminalRef = FALSE
  /\ intervalRef = 0
  /\ timers = {}
  /\ inflight = NoGets
  /\ posts = NoPosts
  /\ last = Step("init", 0, "none")
  /\ stageCall = NoStageCall
  /\ logState = NoLogState
  /\ tickQueue = Null
  /\ PagesIdle

\* ---------------------------------------------------------------- effect
\* The polling effect for props (j, e): the previous run's cleanup (when
\* that run registered one), then the effect body.
RunEffect(hadCleanup, j, e) ==
  LET ts1 == IF hadCleanup THEN ClearInterval(timers, intervalRef) ELSE timers
      ref1 == IF hadCleanup THEN 0 ELSE intervalRef
  IN
  IF ~Activates(j, e)
  THEN /\ isPolling' = FALSE
       /\ timers' = ts1
       /\ intervalRef' = ref1
       /\ UNCHANGED <<isTerminalRef, isLoading, error, inflight>>
       /\ last' = Step("effect", 0, "none")
  ELSE LET term == ResetTerminal(isTerminalRef)
           go == WillFetch(j, term)
           t == [id |-> FreshId(ts1), jid |-> j]
       IN
       /\ Cardinality(ts1) < MaxTimers
       /\ go => Outstanding < MaxInFlight
       /\ isTerminalRef' = term
       /\ inflight' = IF go THEN IssueGet(inflight, j, "hook") ELSE inflight
       /\ isLoading' = IF go THEN TRUE ELSE isLoading
       /\ error' = IF go THEN Null ELSE error
       /\ isPolling' = TRUE
       /\ timers' = ts1 \cup {t}
       /\ intervalRef' = t.id
       /\ last' = Step("effect", IF go THEN 1 ELSE 0, "none")

Mount ==
  /\ phase = "init"
  /\ phase' = "mounted"
  /\ RunEffect(FALSE, jobId, enabled)
  /\ UNCHANGED <<jobId, enabled, job, posts>>
  /\ UNCHANGED outsideHook

SetJobId ==
  /\ phase = "mounted"
  /\ \E j \in (JobIds \cup {Null}) \ {jobId} :
       /\ jobId' = j
       /\ RunEffect(Activates(jobId, enabled), j, enabled)
  /\ UNCHANGED <<phase, enabled, job, posts>>
  /\ UNCHANGED outsideHook

SetEnabled ==
  /\ phase = "mounted"
  /\ enabled' = ~enabled
  /\ RunEffect(Activates(jobId, enabled), jobId, ~enabled)
  /\ UNCHANGED <<phase, jobId, job, posts>>
  /\ UNCHANGED outsideHook

\* a render with another pollInterval: the effect depends on it and re-runs
SetPollInterval ==
  /\ phase = "mounted"
  /\ RunEffect(Activates(jobId, enabled), jobId, enabled)
  /\ UNCHANGED <<phase, jobId, enabled, job, posts>>
  /\ UNCHANGED outsideHook

\* The effect's cleanup runs; the component's useState cells go with the
\* component. The refs and the requests in flight stay reachable from the
\* closures that await them.
Unmount ==
  /\ phase = "mounted"
  /\ phase' = "unmounted"
  /\ IF Activates(jobId, enabled)
     THEN /\ timers' = ClearInterval(timers, intervalRef)
          /\ intervalRef' = 0
     ELSE UNCHANGED <<timers, intervalRef>>
  /\ job' = NoJob
  /\ error' = Null
  /\ isLoading' = FALSE
  /\ isPolling' = FALSE
  /\ last' = Step("unmount", 0, "none")
  /\ UNCHANGED <<jobId, enabled, isTerminalRef, inflight, posts>>
  /\ UNCHANGED outsideHook

\* ----------------------------------------------------------------- timer
\* an interval callback that skips its fetch while one is loading
TickSkipsWhenLoading ==
  /\ UNCHANGED outsideHook
  /\ \E t \in timers :
    /\ ~isTerminalRef
    /\ LET go == WillFetch(t.jid, isTerminalRef) /\ ~isLoading IN
       /\ go => Outstanding < MaxInFlight
       /\ inflight' = IF go THEN IssueGet(inflight, t.jid, "hook") ELSE inflight
       /\ isLoading' = IF go THEN TRUE ELSE isLoading
       /\ error' = IF go THEN Null ELSE error
       /\ last' = Step("tick", IF go THEN 1 ELSE 0, "none")
    /\ UNCHANGED <<phase, jobId, enabled, job, isPolling,
                   isTerminalRef, intervalRef, timers, posts>>

Tick ==
  /\ UNCHANGED outsideHook
  /\ \E t \in timers :
    IF isTerminalRef
    THEN /\ last' = Step("tick", 0, "none")
         /\ timers' = ClearInterval(timers, intervalRef)
         /\ intervalRef' = 0
         /\ isPolling' = SetState(phase, isPolling, FALSE)
         /\ UNCHANGED <<phase, jobId, enabled, job, error, isLoading,
                        isTerminalRef, inflight, posts>>
    ELSE LET go == WillFetch(t.jid, isTerminalRef) IN
         /\ last' = Step("tick", IF go THEN 1 ELSE 0, "none")
         /\ go => Outstanding < MaxInFlight
         /\ inflight' = IF go THEN IssueGet(inflight, t.jid, "hook") ELSE inflight
         /\ isLoading' = IF go THEN SetState(phase, isLoading, TRUE) ELSE isLoading
         /\ error' = IF go THEN SetState(phase, error, Null) ELSE error
         /\ UNCHANGED <<phase, jobId, enabled, job, isPolling,
                        isTerminalRef, intervalRef, timers, posts>>

\* ------------------------------------------------------------ user calls
Refetch ==
  /\ phase = "mounted"
  /\ LET go == WillFetch(jobId, isTerminalRef) IN
     /\ go => Outstanding < MaxInFlight
     /\ inflight' = IF go THEN IssueGet(inflight, jobId, "hook") ELSE inflight
     /\ isLoading' = IF go THEN TRUE ELSE isLoading
     /\ error' = IF go THEN Null ELSE error
     /\ last' = Step("refetch", IF go THEN 1 ELSE 0, "none")
  /\ UNCHANGED <<phase, jobId, enabled, job, isPolling,
                 isTerminalRef, intervalRef, timers, posts>>
  /\ UNCHANGED outsideHook

\* the job state shows a status that is not terminal
JobNonTerminal == job # NoJob /\ job.status \notin TERMINAL_STATUSES

Cancel ==
  /\ phase = "mounted"
  /\ IF jobId = Null
     THEN /\ last' = Step("cancel", 0, "false")
          /\ UNCHANGED posts
     ELSE /\ Outstanding < MaxInFlight
          /\ posts' = [posts EXCEPT ![jobId] = @ + 1]
          /\ last' = Step("cancel", 0, "none")
  /\ UNCHANGED <<phase, jobId, enabled, job, error, isLoading,
                 isPolling, isTerminalRef, intervalRef, timers, inflight>>
  /\ UNCHANGED outsideHook

\* ------------------------------------------------------ cancel POST answers
\* 2xx: cancelJob awaits the fetchJob it captured, then returns true
PostOk(j) ==
  /\ SettlePost(j)
  /\ LET go == WillFetch(j, isTerminalRef) IN
     /\ inflight' = IF go THEN IssueGet(inflight, j, "cancel") ELSE inflight
     /\ isLoading' = IF go THEN SetState(phase, isLoading, TRUE) ELSE isLoading
     /\ error' = IF go THEN SetState(phase, error, Null) ELSE error
     /\ last' = Step("postOk", IF go THEN 1 ELSE 0, IF go THEN "none" ELSE "true")
  /\ UNCHANGED <<phase, jobId, enabled, job, isPolling,
                 isTerminalRef, intervalRef, timers>>

\* a catch block that also drops the job snapshot
PostFailClearsJob(j, kind) ==
  /\ SettlePost(j)
  /\ error' = SetState(phase, error, CancelErrorMessage(kind))
  /\ job' = NoJob
  /\ last' = Step("postFail", 0, "false")
  /\ UNCHANGED <<phase, jobId, enabled, isLoading, isPolling,
                 isTerminalRef, intervalRef, timers, inflight>>

\* non-2xx or a network error: the catch block
PostFail(j, kind) ==
  /\ SettlePost(j)
  /\ error' = SetState(phase, error, CancelErrorMessage(kind))
  /\ last' = Step("postFail", 0, "false")
  /\ UNCHANGED <<phase, jobId, enabled, job, isLoading, isPolling,
                 isTerminalRef, intervalRef, timers, inflight>>

CancelOk ==
  /\ UNCHANGED outsideHook
  /\ \E j \in JobIds : PostOk(j)

CancelFail ==
  /\ UNCHANGED outsideHook
  /\ \E j \in JobIds :
    /\ SettlePost(j)
    /\ \E kind \in PostFailures : PostFail(j, kind)

\* ------------------------------------------------------------ GET answers
FetchOk(j, o, s) ==
  /\ Settle(<<j, o>>)
  /\ job' = SetState(phase, job, [id |-> j, status |-> s])
  /\ IF IsTerminal(s)
     THEN /\ isTerminalRef' = TRUE
          /\ isPolling' = SetState(phase, isPolling, FALSE)
          /\ timers' = ClearInterval(timers, intervalRef)
          /\ intervalRef' = 0
     ELSE UNCHANGED <<isTerminalRef, isPolling, timers, intervalRef>>
  /\ isLoading' = SetState(phase, isLoading, FALSE)
  /\ last' = Step("fetchOk", 0, IF o = "cancel" THEN "true" ELSE "none")
  /\ UNCHANGED <<phase, jobId, enabled, error, posts>>

\* a catch block that gives up polling
FetchFailStopsPolling(j, o, kind) ==
  /\ Settle(<<j, o>>)
  /\ error' = SetState(phase, error, FetchErrorMessage(kind))
  /\ isLoading' = SetState(phase, isLoading, FALSE)
  /\ timers' = ClearInterval(timers, intervalRef)
  /\ intervalRef' = 0
  /\ last' = Step("fetchFail", 0, IF o = "cancel" THEN "true" ELSE "none")
  /\ UNCHANGED <<phase, jobId, enabled, job, isPolling,
                 isTerminalRef, posts>>

\* a catch block that also drops the job snapshot
FetchFailClearsJob(j, o, kind) ==
  /\ Settle(<<j, o>>)
  /\ error' = SetState(phase, error, FetchErrorMessage(kind))
  /\ isLoading' = SetState(phase, isLoading, FALSE)
  /\ job' = NoJob
  /\ last' = Step("fetchFail", 0, IF o = "cancel" THEN "true" ELSE "none")
  /\ UNCHANGED <<phase, jobId, enabled, isPolling,
                 isTerminalRef, intervalRef, timers, posts>>

\* the catch and finally blocks of fetchJob
FetchFail(j, o, kind) ==
  /\ Settle(<<j, o>>)
  /\ error' = SetState(phase, error, FetchErrorMessage(kind))
  /\ isLoading' = SetState(phase, isLoading, FALSE)
  /\ last' = Step("fetchFail", 0, IF o = "cancel" THEN "true" ELSE "none")
  /\ UNCHANGED <<phase, jobId, enabled, job, isPolling,
                 isTerminalRef, intervalRef, timers, posts>>

ResolveOk ==
  /\ UNCHANGED outsideHook
  /\ \E k \in FetchKeys :
    /\ Settle(k)
    /\ \E s \in ApiStatuses : FetchOk(k[1], k[2], s)

ResolveFail ==
  /\ UNCHANGED outsideHook
  /\ \E k \in FetchKeys :
    /\ Settle(k)
    /\ \E kind \in FetchFailures : FetchFail(k[1], k[2], kind)

\* ------------------------------------------------------------------ Next
Next ==
  \/ Mount
  \/ SetJobId
  \/ SetEnabled
  \/ SetPollInterval
  \/ Unmount
  \/ Tick
  \/ Refetch
  \/ Cancel
  \/ CancelOk
  \/ CancelFail
  \/ ResolveOk
  \/ ResolveFail

Spec == Init /\ [][Next]_vars

\* The interval timer fires again and again for as long as one is
\* registered.
FairSpec == Spec /\ SF_vars(Tick)

\* ------------------------------------------------------- step observations
\* the number of GET /api/jobs/{id} requests the step sends
GetsIssued ==
  IF inflight' = inflight THEN 0
  ELSE CountGets(inflight') - CountGets(inflight)

\* the number of cancel POSTs the step sends
PostsIssued ==
  IF posts' = posts THEN 0
  ELSE CountPosts(posts') - CountPosts(posts)

\* the session polls: mounted, with a job id, enabled
Active == phase = "mounted" /\ Activates(jobId, enabled)

\* ------------------------------------------------------ queued callbacks
\* An event loop in which a callback of the interval can be queued as a task
\* when the timer fires and run later, also after clearInterval.
\* The timer fires: its callback is queued.
QueueTick ==
  /\ tickQueue = Null
  /\ \E t \in timers : tickQueue' = t.jid
  /\ UNCHANGED <<phase, jobId, enabled, job, error, isLoading, isPolling,
                 isTerminalRef, intervalRef, timers, inflight, posts, last,
                 stageCall, logState>>
  /\ UNCHANGED pages

\* a callback that decides on the flag as it was when the timer was set up
RunQueuedTickStaleFlag ==
  /\ tickQueue # Null
  /\ tickQueue' = Null
  /\ LET go == WillFetch(tickQueue, FALSE) IN
     /\ last' = Step("queuedTick", IF go THEN 1 ELSE 0, "none")
     /\ go => Outstanding < MaxInFlight
     /\ inflight' = IF go THEN IssueGet(inflight, tickQueue, "hook") ELSE inflight
     /\ isLoading' = IF go THEN SetState(phase, isLoading, TRUE) ELSE isLoading
     /\ error' = IF go THEN SetState(phase, error, Null) ELSE error
  /\ UNCHANGED <<phase, jobId, enabled, job, isPolling, isTerminalRef,
                 intervalRef, timers, posts, stageCall, logState>>
  /\ UNCHANGED pages

\* The queued callback runs: the body of the setInterval callback, with the
\* fetchJob it closed over.
RunQueuedTick ==
  /\ tickQueue # Null
  /\ tickQueue' = Null
  /\ IF isTerminalRef
     THEN /\ last' = Step("queuedTick", 0, "none")
          /\ timers' = ClearInterval(timers, intervalRef)
          /\ intervalRef' = 0
          /\ isPolling' = SetState(phase, isPolling, FALSE)
          /\ UNCHANGED <<error, isLoading, inflight>>
     ELSE LET go == WillFetch(tickQueue, isTerminalRef) IN
          /\ last' = Step("queuedTick", IF go THEN 1 ELSE 0, "none")
          /\ go => Outstanding < MaxInFlight
          /\ inflight' = IF go THEN IssueGet(inflight, tickQueue, "hook")
                         ELSE inflight
          /\ isLoading' = IF go THEN SetState(phase, isLoading, TRUE)
                          ELSE isLoading
          /\ error' = IF go THEN SetState(phase, error, Null) ELSE error
          /\ UNCHANGED <<isPolling, intervalRef, timers>>
  /\ UNCHANGED <<phase, jobId, enabled, job, isTerminalRef, posts,
                 stageCall, logState>>
  /\ UNCHANGED pages

QueueNext == Next \/ QueueTick \/ RunQueuedTick

QueueSpec == Init /\ [][QueueNext]_vars

\* ======================================================= usePipelineStage
\* The stage projection (src/hooks/usePipelineStage.ts) and the older
\* version of the same file kept in the source (src/unnamed/part_003).
\* Numbers are exact: no quotient the code rounds lies near a half.
Versions == {"current", "older"}

PIPELINE_STAGES(v) ==
  IF v = "current"
  THEN << [key |-> "downloading", label |-> "Downloading", order |-> 0],
          [key |-> "detection", label |-> "Detection", order |-> 1],
          [key |-> "intake", label |-> "Intake", order |-> 2],
          [key |-> "classification", label |-> "Classification", order |-> 3],
          [key |-> "enrichment", label |-> "Enrichment", order |-> 4],
          [key |-> "integration", label |-> "Integration", order |-> 5],
          [key |-> "uploading", label |-> "Uploading", order |-> 6],
          [key |-> "complete", label |-> "Complete", order |-> 7] >>
  ELSE << [key |-> "detection", label |-> "Detection", order |-> 1],
          [key |-> "intake", label |-> "Intake", order |-> 2],
          [key |-> "classification", label |-> "Classification", order |-> 3],
          [key |-> "enrichment", label |-> "Enrichment", order |-> 4],
          [key |-> "integration", label |-> "Integration", order |-> 5],
          [key |-> "complete", label |-> "Complete", order |-> 6] >>

\* PIPELINE_STAGES.map(s => s.key)
StageKeys(stages) == [i \in 1..Len(stages) |-> stages[i].key]

\* a status table that sends the failure labels to the last stage
StatusToStageFailuresLast(v, status) ==
  CASE status \in {"pending", "running"} -> "detection"
    [] status \in {"failed", "cancelled"} -> "complete"
    [] status = "classification_pending" -> "classification"
    [] status = "classification_complete" -> "enrichment"
    [] status = "completed" -> "complete"
    [] status = "downloading" /\ v = "current" -> "downloading"
    [] status = "uploading" /\ v = "current" -> "uploading"
    [] OTHER -> Null

\* the lookup tables; a key a table lacks reads as undefined (Null)
STATUS_TO_STAGE(v, status) ==
  CASE status \in {"pending", "running", "failed", "cancelled"} -> "detection"
    [] status = "classification_pending" -> "classification"
    [] status = "classification_complete" -> "enrichment"
    [] status = "completed" -> "complete"
    [] status = "downloading" /\ v = "current" -> "downloading"
    [] status = "uploading" /\ v = "current" -> "uploading"
    [] OTHER -> Null

BACKEND_STAGE_MAP(backendStage) ==
  IF backendStage \in {"downloading", "detection", "intake", "classification",
                       "enrichment", "integration", "uploading", "complete"}
  THEN backendStage
  ELSE Null

STAGE_MESSAGES(stage) ==
  CASE stage = "downloading" -> "Downloading input document from storage"
    [] stage = "detection" ->
         "Detecting figures, tables, and visual elements in your document"
    [] stage = "intake" ->
         "Processing document content and extracting structured data"
    [] stage = "classification" ->
         "Classifying elements by type and reviewing classifications"
    [] stage = "enrichment" ->
         "Enriching content with additional metadata and context"
    [] stage = "integration" -> "Building the final document integration JSON"
    [] stage = "uploading" -> "Uploading results to cloud storage"
    [] stage = "complete" -> "All processing complete. Results are ready."
    [] OTHER -> Null

\* the values of progress.current_phase: absent, null or "" (all falsy), a
\* stage name of the catalogue, or a phase name the frontend does not know
NoPhase == {Null, ""}
BackendPhases ==
  NoPhase \cup {"downloading", "detection", "intake", "classification",
                "enrichment", "integration", "uploading", "complete", "review"}

\* the argument of usePipelineStage: null (NoStatus), or a PipelineStatus of
\* which the hook reads status and progress.current_phase
NoStatus == [status |-> Null, current_phase |-> Null]
StageInputs ==
  {NoStatus} \cup [status : ApiStatuses, current_phase : BackendPhases]

\* PIPELINE_STAGES.find(s => s.key === key): the index, 0 when none
RECURSIVE FindStage(_, _, _)
FindStage(stages, key, i) ==
  IF i > Len(stages) THEN 0
  ELSE IF stages[i].key = key THEN i ELSE FindStage(stages, key, i + 1)

\* Math.round(n / d * 100) for n >= 0 and d > 0
RoundPercent(n, d) == (200 * n + d) \div (2 * d)

\* a resolution that lets the coarse status table win over the phase
ResolveStageStatusFirst(v, input) ==
  LET byStatus == STATUS_TO_STAGE(v, input.status)
      byPhase == IF v = "current" /\ input.current_phase \notin NoPhase
                 THEN BACKEND_STAGE_MAP(input.current_phase) ELSE Null
  IN IF byStatus # Null THEN byStatus
     ELSE IF byPhase # Null THEN byPhase ELSE "detection"

\* currentStage of a non-null input
ResolveStage(v, input) ==
  LET byStatus == STATUS_TO_STAGE(v, input.status)
      coarse == IF byStatus # Null THEN byStatus ELSE "detection"
  IN IF v = "current"
     THEN LET backendStage == input.current_phase IN
          IF backendStage \notin NoPhase /\ BACKEND_STAGE_MAP(backendStage) # Null
          THEN BACKEND_STAGE_MAP(backendStage)
          ELSE coarse
     ELSE coarse

\* currentOrder: "?.order ?? 1" now, "?.order || 1" in the older version
CurrentOrder(v, stage) ==
  LET stages == PIPELINE_STAGES(v)
      i == FindStage(stages, stage, 1)
  IN IF i = 0 THEN 1
     ELSE IF v = "older" /\ stages[i].order = 0 THEN 1 ELSE stages[i].order

StageLabel(v, stage) ==
  LET stages == PIPELINE_STAGES(v)
      i == FindStage(stages, stage, 1)
  IN IF i = 0 THEN "Unknown" ELSE stages[i].label

\* stageProgress of a non-null input
StageProgress(v, currentOrder) ==
  LET gaps == Len(PIPELINE_STAGES(v)) - 1 IN
  IF v = "current" THEN RoundPercent(currentOrder, gaps)
  ELSE RoundPercent(currentOrder - 1, gaps)

\* a "completed" test that also accepts classification_complete
IsJsonReadyLoose(status) == status \in {"completed", "classification_complete"}

IsJsonReady(status) == status = "completed"

\* a filter that keeps the current stage among the completed ones
CompletedStagesInclusive(v, currentOrder) ==
  StageKeys(SelectSeq(PIPELINE_STAGES(v), LAMBDA s : s.order <= currentOrder))

CompletedStages(v, currentOrder) ==
  StageKeys(SelectSeq(PIPELINE_STAGES(v), LAMBDA s : s.order < currentOrder))

UpcomingStages(v, currentOrder) ==
  StageKeys(SelectSeq(PIPELINE_STAGES(v), LAMBDA s : s.order > currentOrder))

\* the projection returned for a null status
QueuedProjection(v) ==
  [currentStage |-> "detection",
   stageLabel |-> "Queued",
   stageProgress |-> 0,
   isJsonReady |-> FALSE,
   stageMessage |-> "Document is queued for processing",
   completedStages |-> <<>>,
   upcomingStages |-> StageKeys(PIPELINE_STAGES(v)),
   isComplete |-> FALSE]

usePipelineStage(v, input) ==
  IF input = NoStatus THEN QueuedProjection(v)
  ELSE LET currentStage == ResolveStage(v, input)
           currentOrder == CurrentOrder(v, currentStage)
           message == STAGE_MESSAGES(currentStage)
       IN [currentStage |-> currentStage,
           stageLabel |-> StageLabel(v, currentStage),
           stageProgress |-> StageProgress(v, currentOrder),
           isJsonReady |-> IsJsonReady(input.status),
           stageMessage |-> IF message # Null THEN message ELSE "Processing...",
           completedStages |-> CompletedStages(v, currentOrder),
           upcomingStages |-> UpcomingStages(v, currentOrder),
           isComplete |-> input.status = "completed"]

\* the hook variables of a page that renders no polling hook
HookIdle ==
  /\ phase = "unmounted"
  /\ jobId = Null
  /\ enabled = FALSE
  /\ job = NoJob
  /\ error = Null
  /\ isLoading = FALSE
  /\ isPolling = FALSE
  /\ isTerminalRef = FALSE
  /\ intervalRef = 0
  /\ timers = {}
  /\ inflight = NoGets
  /\ posts = NoPosts
  /\ last = Step("init", 0, "none")
  /\ tickQueue = Null

hookVars == <<phase, jobId, enabled, job, error, isLoading, isPolling,
              isTerminalRef, intervalRef, timers, inflight, posts, last,
              tickQueue>>

StageInit ==
  HookIdle /\ stageCall = NoStageCall /\ logState = NoLogState /\ PagesIdle

\* a render calls usePipelineStage with a status object it has not seen
\* (useMemo recomputes)
ProjectStage ==
  /\ \E v \in Versions, input \in StageInputs :
       stageCall' = [version |-> v, status |-> input,
                     view |-> usePipelineStage(v, input),
                     override |-> Null, nodes |-> <<>>]
  /\ UNCHANGED hookVars
  /\ UNCHANGED logState
  /\ UNCHANGED pages

\* src/components/pipeline/PipelineStageIndicator.tsx
STAGE_CONFIG ==
  << [key |-> "detection", label |-> "Detection"],
     [key |-> "intake", label |-> "Intake"],
     [key |-> "classification", label |-> "Classification"],
     [key |-> "enrichment", label |-> "Enrichment"],
     [key |-> "integration", label |-> "Integration"],
     [key |-> "complete", label |-> "Complete"] >>

\* the currentStage prop: absent, empty, or a stage the caller chose
StageOverrides == {Null, "", "intake"}

\* STAGE_CONFIG.findIndex(s => s.key === actualStage), from 0; -1 if none
ConfigIndex(actualStage) == FindStage(STAGE_CONFIG, actualStage, 1) - 1

\* the status of each node for the stage shown
NodeStatuses(actualStage) ==
  LET currentIndex == ConfigIndex(actualStage) IN
  [n \in 1..Len(STAGE_CONFIG) |->
     LET index == n - 1 IN
     IF index < currentIndex THEN "completed"
     ELSE IF index = currentIndex
     THEN IF actualStage = "complete" THEN "completed" ELSE "current"
     ELSE "upcoming"]

\* PipelineStageIndicator renders with a status and a currentStage prop: it
\* calls usePipelineStage(status || null) and draws its nodes
RenderIndicator ==
  /\ \E input \in StageInputs, override \in StageOverrides :
       LET view == usePipelineStage("current", input)
           actualStage == IF override \notin {Null, ""} THEN override
                          ELSE view.currentStage
       IN stageCall' = [version |-> "current", status |-> input,
                        view |-> view,
                        override |-> override,
                        nodes |-> NodeStatuses(actualStage)]
  /\ UNCHANGED hookVars
  /\ UNCHANGED logState
  /\ UNCHANGED pages

StageNext == ProjectStage \/ RenderIndicator

StageSpec == StageInit /\ [][StageNext]_vars

\* usePipelineStage has returned
Projected == stageCall # NoStageCall

\* the index (from 0) of a stage key in the catalogue of version v, -1 if none
StageIndex(v, key) == FindStage(PIPELINE_STAGES(v), key, 1) - 1

\* ================================================================ logger
\* src/lib/logger.ts: one loaded module, the environment it reads on every
\* call, and what it has written to the console.
Levels == {"debug", "info", "warn", "error"}

\* LEVEL_PRIORITY[level], for a level name (undefined for any other name)
LEVEL_PRIORITY(level) ==
  CASE level = "debug" -> 0
    [] level = "info" -> 1
    [] level = "warn" -> 2
    [] level = "error" -> 3

\* the tags of the loggers createLogger has made: the default one and another
LoggerTags == {"app", "dashboard"}

\* the values of the environment variables; Null is "not set"
LogModes == {Null, "console", "off", "file", ""}
NodeEnvs == {"production", "development"}
LogLevels == {Null, "verbose"} \cup Levels
DebugFlags == {Null, "true", "false"}

\* process.env.LOG_MODE ?? (production ? 'off' : 'console')
RawMode(ls) ==
  IF ls.LOG_MODE # Null THEN ls.LOG_MODE
  ELSE IF ls.NODE_ENV = "production" THEN "off" ELSE "console"

\* a guard that forgets the one-time flag
FileWarningDueAlways(ls) == ls.isServer /\ RawMode(ls) = "file"

\* shouldLog writes the LOG_MODE=file warning in this call
FileWarningDue(ls) ==
  ls.isServer /\ RawMode(ls) = "file" /\ ~ls.fileWarningEmitted

\* the value shouldLog(level) returns
shouldLog(ls, level) ==
  IF ls.isServer
  THEN LET mode == IF RawMode(ls) = "file" THEN "off" ELSE RawMode(ls)
           threshold == IF ls.LOG_LEVEL \in {Null, ""} THEN "info"
                        ELSE ls.LOG_LEVEL
           floor == IF threshold \in Levels
                    THEN LEVEL_PRIORITY(threshold) ELSE LEVEL_PRIORITY("info")
       IN IF mode = "off" THEN FALSE ELSE LEVEL_PRIORITY(level) >= floor
  ELSE ls.NEXT_PUBLIC_DEBUG = "true"

\* the console method emit uses for a level
ConsoleMethod(level) ==
  CASE level = "error" -> "error"
    [] level = "warn" -> "warn"
    [] level = "debug" -> "debug"
    [] OTHER -> "log"

LoggerInit ==
  /\ HookIdle
  /\ stageCall = NoStageCall
  /\ PagesIdle
  /\ logState \in [isServer : BOOLEAN,
                   LOG_MODE : LogModes,
                   NODE_ENV : NodeEnvs,
                   LOG_LEVEL : LogLevels,
                   NEXT_PUBLIC_DEBUG : DebugFlags,
                   fileWarningEmitted : {FALSE},
                   calls : {0},
                   warnings : {0},
                   emitted : {0},
                   tags : {{}},
                   lastMethod : {Null}]

\* log.<level>(msg) on the logger with the given tag: emit(level, tag, msg)
Emit(level, tag) ==
  LET due == FileWarningDue(logState)
      out == shouldLog(logState, level)
  IN
  /\ logState.calls < MaxLogCalls
  /\ logState' =
       [logState EXCEPT
          !.fileWarningEmitted = IF due THEN TRUE ELSE @,
          !.warnings = IF due THEN @ + 1 ELSE @,
          !.calls = @ + 1,
          !.emitted = IF out THEN @ + 1 ELSE @,
          !.tags = @ \cup {tag},
          !.lastMethod = IF out THEN ConsoleMethod(level) ELSE Null]
  /\ UNCHANGED hookVars
  /\ UNCHANGED stageCall
  /\ UNCHANGED pages

LogCall == \E level \in Levels, tag \in LoggerTags : Emit(level, tag)

LoggerNext == LogCall

LoggerSpec == LoggerInit /\ [][LoggerNext]_vars

\* ========================================================== results page
\* What ResultsPage (src/components/PivotedCsvView.tsx) derives, on each
\* render, from the job its useJobStatus returns.
\* the page's own TERMINAL_STATUSES
ResultsTerminalStatuses ==
  {"completed", "failed", "cancelled", "classification_complete"}

\* job?.status || ''
ResultsJobStatus == IF job = NoJob THEN "" ELSE job.status

\* isTerminal: the page leaves its "running" view
ResultsIsTerminal == ResultsJobStatus \in ResultsTerminalStatuses

\* isCompleted: the results effect fetches the final results (once)
ResultsIsCompleted ==
  /\ ResultsIsTerminal
  /\ ResultsJobStatus \in {"completed", "classification_complete"}

\* ================================================================= claims

\* ============================================================= dashboard
\* src/app/dashboard/page.tsx: the polling state of DashboardPage (isPolling,
\* v4JobIds, pollingRef), the interval timers with the job ids their pollJobs
\* closed over, the poll rounds that are awaiting a fetch, and the status
\* each recent run shows. Staging and upload progress are not kept; a
\* finished processFiles enters as the job ids it created.
MaxRounds == 2

DashStatuses == {"pending", "completed", "classification_complete"}

\* isTerminalStatus(status)
IsTerminalStatus(status) ==
  status \in {"completed", "failed", "cancelled", "classification_complete"}

\* what the awaited fetch of one job can give: a payload with a status, a
\* response that is not ok, or an exception (network, JSON)
PollOutcomes == DashStatuses \cup {"nonOk", "throw"}

\* no poll round in this slot; a round holds the ids pollJobs closed over,
\* the index of the id being fetched and allTerminal, and, as a record of
\* what it saw, the ids observed terminal and whether a fetch failed
NoRound == [ids |-> <<>>, pos |-> 0, allTerminal |-> TRUE,
            seen |-> {}, failed |-> FALSE]

NoRuns == [j \in JobIds |-> Null]

DashStep(op, tracked, seen, failed) ==
  [op |-> op, tracked |-> tracked, seen |-> seen, failed |-> failed]

SeqRange(seq) == {seq[i] : i \in 1..Len(seq)}

\* [...new Set([...prev, ...more])]
RECURSIVE AppendNew(_, _)
AppendNew(prev, more) ==
  IF more = <<>> THEN prev
  ELSE AppendNew(IF more[1] \in SeqRange(prev) THEN prev
                 ELSE Append(prev, more[1]),
                 Tail(more))

\* the sequences of distinct job ids
IdSeqs == {<<>>, <<"A">>, <<"B">>, <<"A", "B">>, <<"B", "A">>}

FreeSlots(rounds) == {r \in 1..MaxRounds : rounds[r] = NoRound}

\* pollJobs() starts: the first fetch is issued
StartRound(rounds, ids) ==
  LET r == CHOOSE s \in FreeSlots(rounds) :
             \A k \in FreeSlots(rounds) : s <= k
  IN [rounds EXCEPT ![r] = [NoRound EXCEPT !.ids = ids, !.pos = 1]]

\* The polling effect after a render with (polling, ids): the cleanup of the
\* previous run, then the body. The result is <<timers, pollingRef, rounds>>.
DashEffect(d, polling, ids) ==
  LET cleared == ClearInterval(d.timers, d.pollingRef) IN
  IF ~polling \/ Len(ids) = 0
  THEN <<cleared, 0, d.rounds>>
  ELSE LET id == FreshId(cleared) IN
       <<cleared \cup {[id |-> id, ids |-> ids]}, id, StartRound(d.rounds, ids)>>

\* the state after the first render: the list fetch of the mount effect is
\* in flight, nothing is polled
DashInit ==
  /\ HookIdle
  /\ stageCall = NoStageCall
  /\ logState = NoLogState
  /\ runsPage = NoRunsPage
  /\ integrityCall = NoIntegrityCall
  /\ dashboard = [phase |-> "mounted",
                  listPending |-> TRUE,
                  isPolling |-> FALSE,
                  v4JobIds |-> <<>>,
                  pollingRef |-> 0,
                  timers |-> {},
                  rounds |-> [r \in 1..MaxRounds |-> NoRound],
                  recentRuns |-> NoRuns,
                  last |-> DashStep("init", <<>>, {}, FALSE)]

dashFrame == <<phase, jobId, enabled, job, error, isLoading, isPolling,
               isTerminalRef, intervalRef, timers, inflight, posts, last,
               tickQueue, stageCall, logState, runsPage, integrityCall>>

\* setV4JobIds(union) and setIsPolling(true), then the effect of the render
StartPolling(d, more) ==
  LET ids == AppendNew(d.v4JobIds, more)
      eff == DashEffect(d, TRUE, ids)
  IN [d EXCEPT !.v4JobIds = ids, !.isPolling = TRUE,
               !.timers = eff[1], !.pollingRef = eff[2], !.rounds = eff[3]]

\* the active ids of a job list, in list order
RECURSIVE ActiveIds(_, _)
ActiveIds(jobs, i) ==
  IF i > Len(JobIdSeq) THEN <<>>
  ELSE LET j == JobIdSeq[i] IN
       IF jobs[j] # Null /\ ~IsTerminalStatus(jobs[j])
       THEN <<j>> \o ActiveIds(jobs, i + 1)
       ELSE ActiveIds(jobs, i + 1)

\* The list fetch of the mount effect settles: jobs maps each listed job to
\* its status (an answer that is not ok reads as the empty list); a rejected
\* fetch changes nothing.
DashListSettles(jobs, thrown) ==
  /\ dashboard # NoDashboard
  /\ dashboard.listPending
  /\ LET d == [dashboard EXCEPT !.listPending = FALSE,
                                !.last = DashStep("list", dashboard.v4JobIds,
                                                  {}, thrown)]
         active == ActiveIds(jobs, 1)
     IN IF thrown \/ d.phase # "mounted"
        THEN dashboard' = d
        ELSE IF Len(active) = 0
        THEN dashboard' = [d EXCEPT !.recentRuns = jobs]
        ELSE /\ FreeSlots(d.rounds) # {}
             /\ dashboard' = StartPolling([d EXCEPT !.recentRuns = jobs], active)
  /\ UNCHANGED dashFrame

DashList ==
  \E jobs \in [JobIds -> DashStatuses \cup {Null}], thrown \in BOOLEAN :
    /\ thrown => jobs = NoRuns
    /\ DashListSettles(jobs, thrown)

\* processFiles has created the jobs newIds (ids the page does not know) and
\* finishes: the runs are listed and polling is started for them
DashProcessFiles(newIds) ==
  /\ dashboard # NoDashboard
  /\ dashboard.phase = "mounted"
  /\ newIds # <<>>
  /\ \A j \in SeqRange(newIds) :
       j \notin SeqRange(dashboard.v4JobIds) /\ dashboard.recentRuns[j] = Null
  /\ FreeSlots(dashboard.rounds) # {}
  /\ LET d == [dashboard EXCEPT
                 !.recentRuns = [j \in JobIds |->
                                   IF j \in SeqRange(newIds) THEN "pending"
                                   ELSE @[j]],
                 !.last = DashStep("process", dashboard.v4JobIds, {}, FALSE)]
     IN dashboard' = StartPolling(d, newIds)
  /\ UNCHANGED dashFrame

DashProcess == \E newIds \in IdSeqs : DashProcessFiles(newIds)

\* the interval fires: the pollJobs of the effect run that set the timer
DashTick ==
  /\ dashboard # NoDashboard
  /\ FreeSlots(dashboard.rounds) # {}
  /\ \E t \in dashboard.timers :
       dashboard' = [dashboard EXCEPT
                       !.rounds = StartRound(@, t.ids),
                       !.last = DashStep("tick", dashboard.v4JobIds, {}, FALSE)]
  /\ UNCHANGED dashFrame

\* one pass of the loop body of pollJobs for the answer of the awaited fetch
RoundAfter(round, outcome) ==
  LET jobId_ == round.ids[round.pos] IN
  [round EXCEPT
     !.pos = @ + 1,
     !.allTerminal = IF outcome = "throw" THEN FALSE
                     ELSE IF outcome = "nonOk" THEN @
                     ELSE IF ~IsTerminalStatus(outcome) THEN FALSE ELSE @,
     !.seen = IF outcome \in DashStatuses /\ IsTerminalStatus(outcome)
              THEN @ \cup {jobId_} ELSE @,
     !.failed = IF outcome \in {"nonOk", "throw"} THEN TRUE ELSE @]

\* The fetch round r awaits settles. pollJobs takes the answer, and either
\* issues the fetch of the next id or, after the last id, ends: when
\* allTerminal is still true it calls setIsPolling(false), and the effect of
\* that render clears the timer.
DashPollSettles(r, outcome) ==
  /\ dashboard # NoDashboard
  /\ dashboard.rounds[r] # NoRound
  /\ LET round == dashboard.rounds[r]
         jobId_ == round.ids[round.pos]
         after == RoundAfter(round, outcome)
         mounted == dashboard.phase = "mounted"
         runs == IF mounted /\ outcome \in DashStatuses
                    /\ dashboard.recentRuns[jobId_] # Null
                 THEN [dashboard.recentRuns EXCEPT ![jobId_] = outcome]
                 ELSE dashboard.recentRuns
     IN IF after.pos <= Len(after.ids)
        THEN dashboard' = [dashboard EXCEPT
                             !.rounds[r] = after,
                             !.recentRuns = runs,
                             !.last = DashStep("poll", dashboard.v4JobIds,
                                               after.seen, after.failed)]
        ELSE LET stop == after.allTerminal /\ Len(after.ids) > 0
                         /\ mounted /\ dashboard.isPolling
                 d == [dashboard EXCEPT
                         !.rounds[r] = NoRound,
                         !.recentRuns = runs,
                         !.last = DashStep("roundEnd", dashboard.v4JobIds,
                                           after.seen, after.failed)]
                 eff == DashEffect(d, FALSE, d.v4JobIds)
             IN dashboard' = IF stop
                             THEN [d EXCEPT !.isPolling = FALSE,
                                            !.timers = eff[1],
                                            !.pollingRef = eff[2]]
                             ELSE d
  /\ UNCHANGED dashFrame

DashPoll ==
  \E r \in 1..MaxRounds, outcome \in PollOutcomes : DashPollSettles(r, outcome)

\* the page unmounts: the cleanup of the polling effect
DashUnmount ==
  /\ dashboard # NoDashboard
  /\ dashboard.phase = "mounted"
  /\ dashboard' = [dashboard EXCEPT
                     !.phase = "unmounted",
                     !.timers = ClearInterval(@, dashboard.pollingRef),
                     !.pollingRef = 0,
                     !.last = DashStep("unmount", dashboard.v4JobIds, {}, FALSE)]
  /\ UNCHANGED dashFrame

DashNext ==
  \/ DashList
  \/ DashProcess
  \/ DashTick
  \/ DashPoll
  \/ DashUnmount

DashSpec == DashInit /\ [][DashNext]_vars

\* ============================================================= runs page
\* src/unnamed/part_005: RunsPage keeps the job list it fetched last, one
\* interval timer that refetches the list, and a mounted flag. A job of the
\* list is modelled by its status. fetchJobs awaits twice: the fetch, then
\* the JSON body.
MaxJobs == 2

RunsTerminalStatuses == {"completed", "failed", "cancelled"}

RunsStatuses == {"running", "classification_complete", "completed", "failed"}

\* the job lists GET /api/jobs can return
JobLists ==
  {<<>>} \cup UNION {[1..n -> RunsStatuses] : n \in 1..MaxJobs}

\* a test that also takes classification_complete for terminal
AllJobsTerminalWithClassification(jobList) ==
  \A i \in 1..Len(jobList) :
    jobList[i] \in RunsTerminalStatuses \cup {"classification_complete"}

\* allJobsTerminal(jobList); true for the empty list
AllJobsTerminal(jobList) ==
  \A i \in 1..Len(jobList) : jobList[i] \in RunsTerminalStatuses

\* updatePolling(jobList): <<timers, pollingRef>> afterwards
UpdatePolling(rp, jobList) ==
  LET cleared == ClearInterval(rp.timers, rp.pollingRef) IN
  IF ~AllJobsTerminal(jobList) /\ rp.isMountedRef
  THEN LET id == FreshId(cleared) IN <<cleared \cup {[id |-> id]}, id>>
  ELSE <<cleared, 0>>

\* the state after the mount effects: isMountedRef set, the first fetchJobs
\* awaiting its fetch, updatePolling([]) done
RunsInit ==
  /\ HookIdle
  /\ stageCall = NoStageCall
  /\ logState = NoLogState
  /\ dashboard = NoDashboard
  /\ integrityCall = NoIntegrityCall
  /\ runsPage = [phase |-> "mounted",
                 isMountedRef |-> TRUE,
                 jobs |-> <<>>,
                 loading |-> TRUE,
                 refreshing |-> FALSE,
                 pollingRef |-> 0,
                 timers |-> {},
                 fetching |-> 1,
                 parsing |-> 0,
                 op |-> "mount"]

runsFrame == <<phase, jobId, enabled, job, error, isLoading, isPolling,
               isTerminalRef, intervalRef, timers, inflight, posts, last,
               tickQueue, stageCall, logState, dashboard, integrityCall>>

\* fetchJobs() up to its first await
FetchJobs(rp) ==
  IF ~rp.isMountedRef THEN rp ELSE [rp EXCEPT !.fetching = @ + 1]

\* the finally block of fetchJobs
FetchJobsFinally(rp) ==
  IF rp.isMountedRef /\ rp.phase = "mounted"
  THEN [rp EXCEPT !.loading = FALSE, !.refreshing = FALSE]
  ELSE rp

\* the interval fires: fetchJobs()
RunsTick ==
  /\ runsPage # NoRunsPage
  /\ runsPage.timers # {}
  /\ runsPage.fetching + runsPage.parsing < MaxInFlight
  /\ runsPage' = [FetchJobs(runsPage) EXCEPT !.op = "tick"]
  /\ UNCHANGED runsFrame

\* handleRefresh
RunsRefresh ==
  /\ runsPage # NoRunsPage
  /\ runsPage.phase = "mounted"
  /\ runsPage.fetching + runsPage.parsing < MaxInFlight
  /\ runsPage' = [FetchJobs([runsPage EXCEPT !.refreshing = TRUE])
                    EXCEPT !.op = "refresh"]
  /\ UNCHANGED runsFrame

\* the awaited fetch settles: with an ok response (the body is awaited next,
\* when still mounted), a response that is not ok, or an exception
RunsFetchSettles(outcome) ==
  /\ runsPage # NoRunsPage
  /\ runsPage.fetching > 0
  /\ LET rp == [runsPage EXCEPT !.fetching = @ - 1, !.op = "fetch"] IN
     runsPage' = IF outcome = "ok" /\ rp.isMountedRef
                 THEN [rp EXCEPT !.parsing = @ + 1]
                 ELSE FetchJobsFinally(rp)
  /\ UNCHANGED runsFrame

RunsFetch == \E outcome \in {"ok", "nonOk", "throw"} : RunsFetchSettles(outcome)

\* the awaited res.json() gives the list: setJobs(data), the effect of the
\* render calls updatePolling(data), then the finally block
RunsJsonOk(data) ==
  /\ runsPage # NoRunsPage
  /\ runsPage.parsing > 0
  /\ LET rp == [runsPage EXCEPT !.parsing = @ - 1, !.op = "json"]
         upd == UpdatePolling(rp, data)
     IN runsPage' = IF rp.phase = "mounted"
                    THEN FetchJobsFinally([rp EXCEPT !.jobs = data,
                                                     !.timers = upd[1],
                                                     !.pollingRef = upd[2]])
                    ELSE FetchJobsFinally(rp)
  /\ UNCHANGED runsFrame

\* the awaited res.json() throws
RunsJsonFail ==
  /\ runsPage # NoRunsPage
  /\ runsPage.parsing > 0
  /\ runsPage' = FetchJobsFinally([runsPage EXCEPT !.parsing = @ - 1,
                                                   !.op = "jsonFail"])
  /\ UNCHANGED runsFrame

RunsJson == (\E data \in JobLists : RunsJsonOk(data)) \/ RunsJsonFail

\* the page unmounts: the cleanup of the mount effect
RunsUnmount ==
  /\ runsPage # NoRunsPage
  /\ runsPage.phase = "mounted"
  /\ runsPage' = [runsPage EXCEPT
                    !.phase = "unmounted",
                    !.isMountedRef = FALSE,
                    !.timers = ClearInterval(@, runsPage.pollingRef),
                    !.pollingRef = 0,
                    !.op = "unmount"]
  /\ UNCHANGED runsFrame

RunsNext ==
  \/ RunsTick
  \/ RunsRefresh
  \/ RunsFetch
  \/ RunsJson
  \/ RunsUnmount

RunsSpec == RunsInit /\ [][RunsNext]_vars

\* ======================================================== page integrity
\* src/unnamed/part_002: calculatePageIntegrity(figures, csvTables). A figure
\* is its class_name and page_id; a CSV table is its headers and its rows,
\* a row being the cells under the figure_sha8 and source_page columns.
MaxFigures == 2
MaxRows == 2

FigureInputs ==
  [class_name : {"figure", "reject"}, page_id : {Null, "1", "2"}]

FigureLists ==
  {<<>>} \cup UNION {[1..n -> FigureInputs] : n \in 1..MaxFigures}

\* header rows: the two columns in mixed case, or one of them missing
HeaderRows == {<<"Source_Page", "figure_sha8">>, <<"figure_sha8", "name">>}

CsvRows == [figure_sha8 : {Null, " ", "ab12cd34"}, source_page : {"", "2"}]

RowLists == {<<>>} \cup UNION {[1..n -> CsvRows] : n \in 1..MaxRows}

\* csvTables: null, or an object with one table
CsvInputs ==
  {NoCsv} \cup {[available |-> TRUE,
                   tables |-> <<[headers |-> h, rows |-> r]>>]
                  : h \in HeaderRows, r \in RowLists}

\* h.toLowerCase() on the header names used
ToLowerCase(h) == IF h = "Source_Page" THEN "source_page" ELSE h

\* s.trim() on the cell values used
Trim(s) == IF s = " " THEN "" ELSE s

\* parseInt(s || '1', 10) on the page values used
ParsePage(s) ==
  IF s \in {Null, ""} THEN 1
  ELSE IF s = "1" THEN 1 ELSE 2

\* table.headers.findIndex(h => h.toLowerCase() === name), from 1; 0 if none
RECURSIVE FindHeader(_, _, _)
FindHeader(headers, name, i) ==
  IF i > Len(headers) THEN 0
  ELSE IF ToLowerCase(headers[i]) = name THEN i
  ELSE FindHeader(headers, name, i + 1)

\* figuresByPage[p]: the figures of page p that are not rejected
FiguresByPage(figures, p) ==
  Cardinality({i \in 1..Len(figures) :
                 /\ figures[i].class_name # "reject"
                 /\ ParsePage(figures[i].page_id) = p})

\* the rows of one table that count for page p
TableCount(table, p) ==
  IF FindHeader(table.headers, "source_page", 1) = 0
     \/ FindHeader(table.headers, "figure_sha8", 1) = 0
  THEN 0
  ELSE Cardinality({i \in 1..Len(table.rows) :
                      /\ table.rows[i].figure_sha8 # Null
                      /\ Trim(table.rows[i].figure_sha8) # ""
                      /\ ParsePage(table.rows[i].source_page) = p})

\* csvByPage[p]
CsvByPage(csvTables, p) ==
  IF ~csvTables.available THEN 0
  ELSE SumFrom([i \in 1..Len(csvTables.tables) |->
                  TableCount(csvTables.tables[i], p)],
               [i \in 1..Len(csvTables.tables) |-> i], 1)

PageNumbers == {1, 2}

\* allPages: the pages with a figure or a CSV entity
AllPages(figures, csvTables) ==
  {p \in PageNumbers :
     FiguresByPage(figures, p) > 0 \/ CsvByPage(csvTables, p) > 0}

\* the status of one page (step 4)
PageStatus(csvTables, figureCount, csvCount) ==
  IF ~csvTables.available
  THEN IF figureCount > 0 THEN "csv_pending" ELSE "no_figures"
  ELSE IF figureCount = 0 /\ csvCount = 0 THEN "no_figures"
  ELSE IF figureCount = 0 THEN "no_figures"
  ELSE IF csvCount = 0 THEN "csv_pending"
  ELSE IF figureCount = csvCount THEN "matched"
  ELSE IF figureCount > csvCount THEN "csv_missing"
  ELSE "figures_extra"

\* the results for the pages from p on, in page order
RECURSIVE IntegrityFrom(_, _, _)
IntegrityFrom(figures, csvTables, p) ==
  IF p > 2 THEN <<>>
  ELSE IF p \notin AllPages(figures, csvTables)
  THEN IntegrityFrom(figures, csvTables, p + 1)
  ELSE LET figureCount == FiguresByPage(figures, p)
           csvCount == CsvByPage(csvTables, p)
       IN <<[pageNumber |-> p,
             figureCount |-> figureCount,
             csvEntityCount |-> csvCount,
             status |-> PageStatus(csvTables, figureCount, csvCount)]>>
          \o IntegrityFrom(figures, csvTables, p + 1)

calculatePageIntegrity(figures, csvTables) ==
  IntegrityFrom(figures, csvTables, 1)

IntegrityInit ==
  /\ HookIdle
  /\ stageCall = NoStageCall
  /\ logState = NoLogState
  /\ dashboard = NoDashboard
  /\ runsPage = NoRunsPage
  /\ integrityCall \in [called : {FALSE},
                        pages : {<<>>},
                        figures : FigureLists,
                        csvTables : CsvInputs]

\* the caller that holds these figures and CSV tables computes the integrity
CalculateIntegrity ==
  /\ ~integrityCall.called
  /\ integrityCall' =
       [integrityCall EXCEPT
          !.called = TRUE,
          !.pages = calculatePageIntegrity(integrityCall.figures,
                                           integrityCall.csvTables)]
  /\ UNCHANGED <<phase, jobId, enabled, job, error, isLoading, isPolling,
                 isTerminalRef, intervalRef, timers, inflight, posts, last,
                 tickQueue, stageCall, logState, dashboard, runsPage>>

IntegrityNext == CalculateIntegrity

IntegritySpec == IntegrityInit /\ [][IntegrityNext]_vars

\* C1: once a fetch has observed a terminal status (the terminal flag is
\* set), a step sends a GET only if it is a manual refetch() or a new
\* activation by a job id change or a re-enable.
C1_NoFetchAfterTerminal ==
  [][(isTerminalRef /\ GetsIssued > 0)
       => \/ Refetch
          \/ jobId' # jobId
          \/ (~enabled /\ enabled')]_vars

\* C2: the answer to a fetch that was sent for a job id other than the
\* current one is discarded: it leaves the job state as it was.
C2_StaleResponseDiscarded ==
  [][\A j \in JobIds, o \in Origins, s \in ApiStatuses :
       (FetchOk(j, o, s) /\ phase = "mounted" /\ j # jobId) => job' = job]_vars

\* C3: while the session polls job B, the terminal flag is set and B's
\* timer is cleared only by an answer to a fetch of B: an answer for an
\* abandoned job id leaves the flag and the live timer alone.
C3_StaleTerminalNeverBlocks ==
  [][\A j \in JobIds, o \in Origins, s \in ApiStatuses :
       (FetchOk(j, o, s) /\ Active /\ j # jobId)
         => (isTerminalRef' = isTerminalRef /\ timers' = timers)]_vars

\* C4: a run of the polling effect sends exactly one GET, for the new job
\* id and in the same step that registers the interval timer, when the job
\* id is non-null and enabled is true; it sends none otherwise.
C4_ActivationFetchesOnce ==
  [][(Mount \/ SetJobId \/ SetEnabled \/ SetPollInterval)
       => IF Activates(jobId', enabled')
          THEN /\ GetsIssued = 1
               /\ inflight'[<<jobId', "hook">>] = inflight[<<jobId', "hook">>] + 1
               /\ [id |-> intervalRef', jid |-> jobId'] \in timers'
          ELSE GetsIssued = 0]_vars

\* an activation that follows a terminal observation has sent its fetch
C4_Witness ==
  /\ Active
  /\ last.op = "effect"
  /\ last.gets = 1
  /\ job # NoJob
  /\ job.status \in TERMINAL_STATUSES

\* C5: refetch() with the terminal flag set sends nothing and leaves job,
\* error, isLoading and isPolling (and the refs and the timer) unchanged.
C5_RefetchTerminalNoOp ==
  [][(Refetch /\ isTerminalRef)
       => /\ GetsIssued = 0
          /\ UNCHANGED <<job, error, isLoading, isPolling, inflight, posts,
                         isTerminalRef, intervalRef, timers>>]_vars

\* refetch() has just been called on a session whose job is terminal
C5_Witness ==
  /\ phase = "mounted"
  /\ jobId # Null
  /\ last.op = "refetch"
  /\ last.gets = 0
  /\ isTerminalRef
  /\ job.id = jobId
  /\ job.status \in TERMINAL_STATUSES

\* C6: a failed fetch (404, another non-2xx, a network error, a JSON decode
\* error) stores an error string, leaves the job state, the terminal flag
\* and the interval timer as they were, and the timer's next tick, finding
\* the flag unset, sends a GET again.
C6_AfterFailure ==
  (last.op = "fetchFail" /\ Active /\ ~isTerminalRef)
    => [id |-> intervalRef, jid |-> jobId] \in timers

C6_FetchFailureKeepsPolling ==
  /\ []C6_AfterFailure
  /\ [][/\ last'.op = "fetchFail"
             => \A j \in JobIds, o \in Origins, kind \in FetchFailures :
                  FetchFail(j, o, kind)
                    => /\ job' = job
                       /\ isTerminalRef' = isTerminalRef
                       /\ intervalRef' = intervalRef
                       /\ timers' = timers
                       /\ isPolling' = isPolling
                       /\ phase = "mounted"
                            => (error' = FetchErrorMessage(kind) /\ error' # Null)
        /\ (last.op = "fetchFail" /\ last'.op = "tick" /\ ~isTerminalRef)
             => GetsIssued = 1]_vars

\* a fetch of the current job has just failed with 404: the error is set,
\* the earlier snapshot is still there, the session still polls
C6_Witness ==
  /\ Active
  /\ last.op = "fetchFail"
  /\ error = "Job not found"
  /\ job.id = jobId
  /\ job.status \notin TERMINAL_STATUSES
  /\ ~isTerminalRef
  /\ isPolling
  /\ timers # {}

\* C7 as stated: cancel() called while the job state shows a non-terminal
\* status sends exactly one POST, and the 2xx answer, the job state still
\* showing a non-terminal status, is followed by exactly one refetch.
C7_CancelPostsThenRefetches ==
  [][/\ (last'.op = "cancel" /\ JobNonTerminal) => PostsIssued = 1
     /\ (last'.op = "postOk" /\ JobNonTerminal) => GetsIssued = 1]_vars

\* C7 amended: cancel() with a non-null job id sends exactly one POST and no
\* GET (none with a null job id); the 2xx answer sends exactly one GET for
\* the captured job id when the terminal flag is unset at that moment and
\* none when it is set; no answer to a GET sends another request; and when
\* the refetch stores status "cancelled" the flag is set, no timer is live
\* and isPolling is false.
C7_CancelAmended ==
  [][/\ last'.op = "cancel"
          => /\ PostsIssued = (IF jobId = Null THEN 0 ELSE 1)
             /\ GetsIssued = 0
     /\ last'.op = "postOk"
          => /\ GetsIssued = (IF isTerminalRef THEN 0 ELSE 1)
             /\ PostsIssued = -1
             /\ \A j \in JobIds :
                  PostOk(j) => inflight'[<<j, "cancel">>]
                                 = inflight[<<j, "cancel">>] + GetsIssued
     /\ (\E j \in JobIds : inflight'[<<j, "cancel">>] > inflight[<<j, "cancel">>])
          => last'.op = "postOk"
     /\ last'.op \in {"fetchOk", "fetchFail"}
          => (GetsIssued = -1 /\ PostsIssued = 0)
     /\ (last'.op = "fetchOk" /\ last'.ret = "true" /\ phase = "mounted"
           /\ job'.status = "cancelled")
          => /\ isTerminalRef'
             /\ timers' = {}
             /\ intervalRef' = 0
             /\ ~isPolling']_vars

\* cancel()'s refetch has stored "cancelled" and polling has stopped
C7_Witness ==
  /\ Active
  /\ last.op = "fetchOk"
  /\ last.ret = "true"
  /\ job = [id |-> jobId, status |-> "cancelled"]
  /\ isTerminalRef
  /\ ~isPolling
  /\ timers = {}

\* C8: a failed cancel POST makes cancel() return false, stores an error
\* string, leaves the job state unchanged and sends no GET and no new POST.
C8_CancelFailure ==
  [][\A j \in JobIds, kind \in PostFailures :
       PostFail(j, kind)
         => /\ last'.ret = "false"
            /\ job' = job
            /\ GetsIssued = 0
            /\ PostsIssued = -1
            /\ phase = "mounted"
                 => (error' = CancelErrorMessage(kind) /\ error' # Null)
            /\ UNCHANGED <<isLoading, isPolling, isTerminalRef, intervalRef, timers>>]_vars

\* cancel() has just failed while a job snapshot was on display
C8_Witness ==
  /\ phase = "mounted"
  /\ last.op = "postFail"
  /\ last.ret = "false"
  /\ error \in {CancelErrorMessage(kind) : kind \in PostFailures}
  /\ job # NoJob
  /\ job.status \notin TERMINAL_STATUSES

\* C9: at most one interval timer is live, it is the one intervalRef holds,
\* none is live unless the session is mounted with a job id and enabled;
\* unmount, a job id change and enabled turning false clear every timer
\* that was registered before.
C9_TimerState ==
  /\ Cardinality(timers) <= 1
  /\ \A t \in timers : t.id = intervalRef
  /\ ~Active => timers = {}

C9_SingleTimer ==
  /\ []C9_TimerState
  /\ [][(Unmount \/ jobId' # jobId \/ (enabled /\ ~enabled'))
          => \A t \in timers : t \notin timers']_vars

\* the job id has changed while the old job's timer was live: one timer, for
\* the new id
C9_Witness ==
  /\ Active
  /\ last.op = "effect"
  /\ job # NoJob
  /\ job.id # jobId
  /\ job.status \notin TERMINAL_STATUSES
  /\ timers = {[id |-> intervalRef, jid |-> jobId]}

\* C10: while the session polls and the terminal flag is unset, the timer of
\* the current job id is live and each of its ticks sends a GET for that id;
\* with the timer firing fairly, the poller (activation or tick) sends a GET
\* again and again unless the flag ends up set or the session inactive (or,
\* in the model, its MaxInFlight requests stay unanswered for ever).
C10_PollFetched == last.op \in {"tick", "effect"} /\ last.gets = 1

C10_TimerLive ==
  (Active /\ ~isTerminalRef)
    => [id |-> intervalRef, jid |-> jobId] \in timers

C10_PollingContinues ==
  /\ []C10_TimerLive
  /\ [][(last'.op = "tick" /\ ~isTerminalRef)
          => /\ GetsIssued = 1
             /\ inflight'[<<jobId, "hook">>] = inflight[<<jobId, "hook">>] + 1]_vars
  /\ ([]<>(Active /\ ~isTerminalRef /\ Outstanding < MaxInFlight)
        => []<>C10_PollFetched)

\* a tick has fetched while an earlier fetch of the job, which had shown a
\* non-terminal status before, was still outstanding
C10_Witness ==
  /\ Active
  /\ ~isTerminalRef
  /\ last.op = "tick"
  /\ last.gets = 1
  /\ job.id = jobId
  /\ job.status = "cancellation_requested"
  /\ inflight[<<jobId, "hook">>] = 2

\* C11: while the hook instance lives, a job state that holds a payload
\* holds one after every step (fetch answers of either kind, cancel calls and
\* their answers, refetches, prop changes); a failed fetch and a failed cancel
\* leave the very payload in place, so it is there next to the error.
C11_SnapshotKept ==
  [][/\ (job # NoJob /\ phase' = "mounted") => job' # NoJob
     /\ (last'.op \in {"fetchFail", "postFail"} /\ phase = "mounted")
          => (job' = job /\ error' # Null)]_vars

\* a fetch that was still outstanding fails after the job was seen terminal:
\* the terminal payload stays next to the error
C11_Witness ==
  /\ phase = "mounted"
  /\ last.op = "fetchFail"
  /\ error # Null
  /\ job.id = jobId
  /\ job.status \in TERMINAL_STATUSES

\* C12: in every projection usePipelineStage returns, for either catalogue,
\* stageProgress is round(index / (length - 1) * 100) for the index (from 0)
\* of the current stage in the catalogue; so it is 0 at the first entry and
\* nowhere else, and 100 at the last entry, "complete", and nowhere else.
C12_ProgressAnchored ==
  Projected =>
    LET stages == PIPELINE_STAGES(stageCall.version)
        index == StageIndex(stageCall.version, stageCall.view.currentStage)
        progress == stageCall.view.stageProgress
    IN /\ index >= 0
       /\ progress = RoundPercent(index, Len(stages) - 1)
       /\ progress = 0 <=> index = 0
       /\ progress = 100 <=> index = Len(stages) - 1
       /\ index = Len(stages) - 1 <=> stageCall.view.currentStage = "complete"

\* C13: isJsonReady is true exactly when the input is a status object whose
\* status is "completed", whatever phase it reports.
C13_JsonReadyIffCompleted ==
  Projected =>
    (stageCall.view.isJsonReady
       <=> (stageCall.status # NoStatus /\ stageCall.status.status = "completed"))

\* a classification_complete job that reports the phase "complete" is
\* projected onto the last stage and is still not JSON-ready
C13_Witness ==
  /\ Projected
  /\ stageCall.version = "current"
  /\ stageCall.status = [status |-> "classification_complete",
                         current_phase |-> "complete"]
  /\ stageCall.view.currentStage = "complete"
  /\ ~stageCall.view.isJsonReady

\* C14: for a null input the projection is the queued one: the current stage
\* is the first stage of the catalogue, progress 0, neither complete nor
\* JSON-ready, nothing completed, the whole catalogue upcoming.
C14_NullIsQueued ==
  (Projected /\ stageCall.version = "current" /\ stageCall.status = NoStatus)
    => LET stages == PIPELINE_STAGES(stageCall.version)
           view == stageCall.view
       IN /\ view.currentStage = stages[1].key
          /\ view.stageProgress = 0
          /\ ~view.isComplete
          /\ ~view.isJsonReady
          /\ view.completedStages = <<>>
          /\ view.upcomingStages = StageKeys(stages)

\* C15: for a status object (current version) the current stage is the
\* reported phase when that is a key of the catalogue, whatever the status;
\* else the entry of the status table; else "detection".
C15_StagePrecedence ==
  (Projected /\ stageCall.version = "current" /\ stageCall.status # NoStatus)
    => LET input == stageCall.status
           coarse == STATUS_TO_STAGE("current", input.status)
       IN stageCall.view.currentStage =
            IF StageIndex("current", input.current_phase) >= 0
            THEN input.current_phase
            ELSE IF coarse # Null THEN coarse ELSE "detection"

\* a failed job that reports the phase "integration" is shown at integration
C15_Witness ==
  /\ Projected
  /\ stageCall.version = "current"
  /\ stageCall.status = [status |-> "failed", current_phase |-> "integration"]
  /\ stageCall.view.currentStage = "integration"

\* the completed stages, the current stage and the upcoming stages make up
\* the catalogue, in its order
StagesPartition(v, view) ==
  LET stages == PIPELINE_STAGES(v)
      index == StageIndex(v, view.currentStage)
  IN /\ index >= 0
     /\ view.completedStages = SubSeq(StageKeys(stages), 1, index)
     /\ view.upcomingStages =
          SubSeq(StageKeys(stages), index + 2, Len(stages))

\* C16 as stated: every projection partitions the catalogue: completedStages
\* are the entries before the current stage, upcomingStages those after it,
\* the current stage is in neither.
C16_PartitionAlways ==
  Projected => StagesPartition(stageCall.version, stageCall.view)

\* C16, amended: the projection of a status object partitions the catalogue
\* so; the projection of a null input has no completed stage and the whole
\* catalogue, the current stage included, as upcoming.
C16_PartitionAmended ==
  Projected =>
    IF stageCall.status # NoStatus
    THEN StagesPartition(stageCall.version, stageCall.view)
    ELSE /\ stageCall.view.completedStages = <<>>
         /\ stageCall.view.upcomingStages =
              StageKeys(PIPELINE_STAGES(stageCall.version))

\* a job in classification: three stages done, four to come
C16_Witness ==
  /\ Projected
  /\ stageCall.version = "current"
  /\ stageCall.status # NoStatus
  /\ stageCall.view.currentStage = "classification"
  /\ stageCall.view.completedStages = <<"downloading", "detection", "intake">>
  /\ Len(stageCall.view.upcomingStages) = 4

\* C17: on the server with LOG_MODE=file no call of any logger, at any
\* level, writes its message (just as with LOG_MODE=off), and the warning
\* that LOG_MODE=file is not supported has been written exactly once as soon
\* as one call was made, however many calls and loggers follow.
C17_FileModeIsOff ==
  (logState # NoLogState /\ logState.isServer)
    => /\ logState.LOG_MODE \in {"file", "off"}
            => (logState.emitted = 0 /\ logState.lastMethod = Null)
       /\ logState.LOG_MODE = "file"
            => logState.warnings = (IF logState.calls > 0 THEN 1 ELSE 0)
       /\ logState.LOG_MODE # "file" => logState.warnings = 0

\* both loggers have logged MaxLogCalls times in all under LOG_MODE=file with
\* the most permissive level: one warning, no message
C17_Witness ==
  /\ logState # NoLogState
  /\ logState.isServer
  /\ logState.LOG_MODE = "file"
  /\ logState.LOG_LEVEL = "debug"
  /\ logState.calls = MaxLogCalls
  /\ logState.tags = LoggerTags
  /\ logState.warnings = 1
  /\ logState.emitted = 0

\* C18: the step in which a successful fetch stores a job with a terminal
\* status also sets the terminal flag, clears the interval timer and sets
\* isPolling to false; an interval callback that was queued before and runs
\* with the flag set sends no GET and leaves the flag set.
C18_TerminalStopsAtOnce ==
  [][/\ (last'.op = "fetchOk" /\ phase = "mounted"
           /\ job'.status \in TERMINAL_STATUSES)
          => /\ isTerminalRef'
             /\ timers' = {}
             /\ intervalRef' = 0
             /\ ~isPolling'
     /\ (last'.op = "queuedTick" /\ isTerminalRef)
          => (GetsIssued = 0 /\ isTerminalRef' /\ timers' = {} /\ job' = job)]_vars

\* a callback queued while the job was polled has run after the terminal
\* answer and has sent nothing
C18_Witness ==
  /\ Active
  /\ last.op = "queuedTick"
  /\ last.gets = 0
  /\ isTerminalRef
  /\ job.id = jobId
  /\ job.status \in TERMINAL_STATUSES
  /\ timers = {}
  /\ Outstanding = 0

\* C19: every successful answer writes its payload to the one job slot,
\* whatever else is in flight and in whichever order the requests were sent;
\* so when two fetches of a job overlap, the job state after both answers is
\* the payload of the answer that came last.
C19_LastResponseWins ==
  [][(last'.op = "fetchOk" /\ phase = "mounted")
       => \A k \in FetchKeys :
            inflight'[k] < inflight[k]
              => \A s \in ApiStatuses :
                   FetchOk(k[1], k[2], s) => job' = [id |-> k[1], status |-> s]]_vars

\* two fetches of the job overlapped; the one answered first was terminal
\* (the flag is set), the one answered last was not, and its payload is the
\* job state
C19_Witness ==
  /\ Active
  /\ last.op = "fetchOk"
  /\ Outstanding = 0
  /\ isTerminalRef
  /\ job = [id |-> jobId, status |-> "running"]

\* C20: a successful fetch that stores status classification_complete
\* leaves the terminal flag, the timer and isPolling as they were, and while
\* that status is shown with the flag unset the timer of the polled job is
\* live (polling goes on); the results page, for the same job state, is
\* terminal and fetches the final results.
C20_PollerKeepsGoing ==
  (Active /\ ~isTerminalRef /\ job = [id |-> jobId,
                                      status |-> "classification_complete"])
    => [id |-> intervalRef, jid |-> jobId] \in timers

C20_ClassificationComplete ==
  /\ [](C20_PollerKeepsGoing)
  /\ []((job # NoJob /\ job.status = "classification_complete")
          => (ResultsIsTerminal /\ ResultsIsCompleted /\ ~IsTerminal(job.status)))
  /\ [][(last'.op = "fetchOk" /\ phase = "mounted"
           /\ job'.status = "classification_complete")
          => /\ isTerminalRef' = isTerminalRef
             /\ timers' = timers
             /\ intervalRef' = intervalRef
             /\ isPolling' = isPolling]_vars

\* classification_complete was observed and a later tick has fetched again,
\* while the results page already counts the job as terminal
C20_Witness ==
  /\ Active
  /\ job = [id |-> jobId, status |-> "classification_complete"]
  /\ ~isTerminalRef
  /\ isPolling
  /\ last.op = "tick"
  /\ last.gets = 1
  /\ ResultsIsTerminal
  /\ ResultsIsCompleted

\* C21: a failed or cancelled job that reports no phase the catalogue knows
\* (none, an empty one, or an unknown name) is projected onto "detection",
\* a stage of the catalogue, and is neither complete nor JSON-ready.
C21_FailureFoldsToDetection ==
  (/\ Projected
   /\ stageCall.status # NoStatus
   /\ stageCall.status.status \in {"failed", "cancelled"}
   /\ StageIndex(stageCall.version, stageCall.status.current_phase) < 0)
    => /\ stageCall.view.currentStage = "detection"
       /\ stageCall.view.stageLabel = "Detection"
       /\ ~stageCall.view.isComplete
       /\ ~stageCall.view.isJsonReady

\* a cancelled job with the unknown phase "review" is shown at detection
C21_Witness ==
  /\ Projected
  /\ stageCall.version = "current"
  /\ stageCall.status = [status |-> "cancelled", current_phase |-> "review"]
  /\ stageCall.view.currentStage = "detection"
  /\ ~stageCall.view.isComplete

\* C22: the dashboard's isPolling goes from true to false only at the end of
\* a poll round in which every tracked job id was observed with a terminal
\* status and no fetch failed or was answered with a status that is not ok.
C22_StopsOnlyWhenAllTerminal ==
  [][(/\ dashboard.phase = "mounted"
      /\ dashboard.isPolling
      /\ ~dashboard'.isPolling)
       => /\ dashboard'.last.op = "roundEnd"
          /\ ~dashboard'.last.failed
          /\ SeqRange(dashboard.v4JobIds) \subseteq dashboard'.last.seen]_vars

\* C23: on the runs page there is never more than one interval timer; while
\* the page is mounted a timer is live exactly when the stored job list
\* holds a job whose status is not terminal; after unmount none is live.
C23_TimerIffActiveJobs ==
  runsPage # NoRunsPage =>
    /\ Cardinality(runsPage.timers) <= 1
    /\ \A t \in runsPage.timers : t.id = runsPage.pollingRef
    /\ runsPage.phase = "mounted" =>
         (runsPage.timers # {}
            <=> \E i \in 1..Len(runsPage.jobs) :
                  runsPage.jobs[i] \notin RunsTerminalStatuses)
    /\ runsPage.phase = "unmounted" => runsPage.timers = {}

\* a list with a completed job and a job waiting after classification has
\* just been stored while another fetch is under way: one timer is live
C23_Witness ==
  /\ runsPage # NoRunsPage
  /\ runsPage.phase = "mounted"
  /\ runsPage.op = "json"
  /\ runsPage.jobs = <<"completed", "classification_complete">>
  /\ runsPage.fetching = 1
  /\ Cardinality(runsPage.timers) = 1

\* the page was polling and has unmounted with a fetch in flight
C23_WitnessUnmounted ==
  /\ runsPage # NoRunsPage
  /\ runsPage.phase = "unmounted"
  /\ runsPage.jobs = <<"running">>
  /\ runsPage.fetching = 1
  /\ runsPage.timers = {}

\* the status the documentation of IntegrityStatus gives to a page
DocumentedStatus(csvAvailable, figureCount, csvCount) ==
  IF ~csvAvailable THEN "csv_pending"
  ELSE IF figureCount = 0 /\ csvCount = 0 THEN "no_figures"
  ELSE IF figureCount = csvCount THEN "matched"
  ELSE IF figureCount > csvCount THEN "csv_missing"
  ELSE "figures_extra"

\* C24: every page of a result of calculatePageIntegrity has the status the
\* documentation defines for its counts: csv_pending when the CSV is not
\* available, else no_figures when both counts are 0, matched when they are
\* equal, csv_missing when there are more figures than CSV entities,
\* figures_extra when there are fewer.
C24_StatusAsDocumented ==
  integrityCall.called =>
    \A i \in 1..Len(integrityCall.pages) :
      LET page == integrityCall.pages[i] IN
      page.status = DocumentedStatus(integrityCall.csvTables.available,
                                     page.figureCount, page.csvEntityCount)

\* the shortest failing call: the CSV is available and holds no entity for
\* the page of the only figure
C24_CsvAvailableNoEntity ==
  /\ integrityCall.called
  /\ integrityCall.csvTables.available
  /\ Len(integrityCall.pages) = 1
  /\ integrityCall.pages[1].figureCount = 1
  /\ integrityCall.pages[1].csvEntityCount = 0
  /\ integrityCall.pages[1].status = "csv_pending"

\* CSV entities on a page without figures are reported as "no_figures"
C24_EntitiesWithoutFigures ==
  /\ integrityCall.called
  /\ integrityCall.csvTables.available
  /\ Len(integrityCall.pages) = 1
  /\ integrityCall.pages[1].figureCount = 0
  /\ integrityCall.pages[1].csvEntityCount = 2
  /\ integrityCall.pages[1].status = "no_figures"

\* the indicator has rendered from the projection alone (no currentStage prop)
IndicatorRendered ==
  /\ Projected
  /\ stageCall.nodes # <<>>
  /\ stageCall.override \in {Null, ""}

\* C25: whenever the indicator renders from a projection, the projected
\* stage is a key of STAGE_CONFIG, the nodes before it are completed, its
\* own node is current (completed for "complete"), the nodes after it are
\* upcoming, and every stage the projector lists as completed that has a
\* node is drawn completed.
C25_IndicatorFollowsProjector ==
  IndicatorRendered =>
    LET stage == stageCall.view.currentStage
        currentIndex == ConfigIndex(stage)
    IN /\ currentIndex >= 0
       /\ \A n \in 1..Len(STAGE_CONFIG) :
            stageCall.nodes[n] =
              IF n - 1 < currentIndex THEN "completed"
              ELSE IF n - 1 > currentIndex THEN "upcoming"
              ELSE IF stage = "complete" THEN "completed" ELSE "current"
       /\ \A n \in 1..Len(STAGE_CONFIG) :
            STAGE_CONFIG[n].key \in SeqRange(stageCall.view.completedStages)
              => stageCall.nodes[n] = "completed"

\* an uploading job: the projector reports the five stages up to
\* integration completed, the indicator draws every node as upcoming
C25_UploadingHasNoNode ==
  /\ IndicatorRendered
  /\ stageCall.status = [status |-> "uploading", current_phase |-> Null]
  /\ stageCall.view.currentStage = "uploading"
  /\ "integration" \in SeqRange(stageCall.view.completedStages)
  /\ \A n \in 1..Len(STAGE_CONFIG) : stageCall.nodes[n] = "upcoming"

\* C26: while the hook is mounted, whenever the terminal flag is set the job
\* state holds a payload with a terminal status.
C26_TerminalFlagMeansTerminalJob ==
  (phase = "mounted" /\ isTerminalRef)
    => (job # NoJob /\ job.status \in TERMINAL_STATUSES)

\* two fetches of job A overlapped; the terminal answer came first and
\* stopped polling, the older answer came last and is the job state
C26_StaleAnswerAfterStop ==
  /\ phase = "mounted"
  /\ jobId = "A"
  /\ enabled
  /\ isTerminalRef
  /\ ~isPolling
  /\ timers = {}
  /\ Outstanding = 0
  /\ job = [id |-> "A", status |-> "running"]

\* the order in which a job passes through its statuses
PipelineOrder ==
  <<"pending", "downloading", "running", "classification_pending",
    "classification_complete", "uploading", "completed">>

\* the position of a status in that order, 0 for a status outside it
RECURSIVE OrderPosition(_, _)
OrderPosition(status, i) ==
  IF i > Len(PipelineOrder) THEN 0
  ELSE IF PipelineOrder[i] = status THEN i ELSE OrderPosition(status, i + 1)

\* a projection (current catalogue) of a status of the pipeline order that
\* reports no phase
CoarseProjection(call) ==
  /\ call # NoStageCall
  /\ call.version = "current"
  /\ call.status # NoStatus
  /\ call.status.current_phase \in NoPhase
  /\ OrderPosition(call.status.status, 1) > 0

\* C27: from one projection to the next, when the status has not moved back
\* in the pipeline order and no phase is reported, stageProgress has not
\* decreased.
C27_ProgressMonotone ==
  [][(/\ CoarseProjection(stageCall)
      /\ CoarseProjection(stageCall')
      /\ OrderPosition(stageCall.status.status, 1)
           <= OrderPosition(stageCall'.status.status, 1))
       => stageCall.view.stageProgress <= stageCall'.view.stageProgress]_vars

\* a pending job is shown at detection with progress 14
C27_PendingAtDetection ==
  /\ CoarseProjection(stageCall)
  /\ stageCall.status.status = "pending"
  /\ stageCall.view.currentStage = "detection"
  /\ stageCall.view.stageProgress = 14

\* a downloading job is shown at the first stage with progress 0
C27_DownloadingAtZero ==
  /\ CoarseProjection(stageCall)
  /\ stageCall.status.status = "downloading"
  /\ stageCall.view.currentStage = "downloading"
  /\ stageCall.view.stageProgress = 0

\* C28: for every status object, isComplete is true exactly when the
\* current stage is "complete", and exactly when stageProgress is 100.
C28_CompleteIffLastStage ==
  (Projected /\ stageCall.version = "current" /\ stageCall.status # NoStatus)
    => /\ stageCall.view.isComplete
            <=> stageCall.view.currentStage = "complete"
       /\ stageCall.view.isComplete <=> stageCall.view.stageProgress = 100

\* a completed job whose last reported phase is "integration": complete,
\* but shown at integration with progress 71
C28_CompletedAtIntegration ==
  /\ Projected
  /\ stageCall.version = "current"
  /\ stageCall.status = [status |-> "completed", current_phase |-> "integration"]
  /\ stageCall.view.isComplete
  /\ stageCall.view.currentStage = "integration"
  /\ stageCall.view.stageProgress = 71

\* a running job that reports the phase "complete": at the last stage with
\* progress 100, and not complete
C28_RunningAtComplete ==
  /\ Projected
  /\ stageCall.version = "current"
  /\ stageCall.status = [status |-> "running", current_phase |-> "complete"]
  /\ ~stageCall.view.isComplete
  /\ stageCall.view.currentStage = "complete"
  /\ stageCall.view.stageProgress = 100

\* C29: a render that changes only pollInterval (job id kept, enabled still
\* true) while the terminal flag is set sends no GET, leaves the flag set
\* and leaves isPolling false.
C29_PollIntervalChangeIsQuiet ==
  [][(isTerminalRef /\ Activates(jobId, enabled) /\ SetPollInterval)
       => /\ GetsIssued = 0
          /\ isTerminalRef'
          /\ ~isPolling']_vars

\* after a terminal answer stopped polling, the pollInterval changed: the
\* flag is cleared, a GET for the finished job is in flight and a timer runs
C29_RestartedAfterTerminal ==
  /\ phase = "mounted"
  /\ jobId = "A"
  /\ enabled
  /\ job = [id |-> "A", status |-> "completed"]
  /\ last.op = "effect"
  /\ last.gets = 1
  /\ ~isTerminalRef
  /\ isPolling
  /\ timers # {}
  /\ InFlightCount = 1

\* C30: while the hook is mounted, isLoading is true exactly when a GET
\* issued through fetchJob is awaiting its answer.
C30_LoadingIffInFlight ==
  phase = "mounted" => (isLoading <=> InFlightCount > 0)

\* a timer tick and a refetch() of job A overlapped; one has been answered,
\* the other is still awaited, and isLoading is already false
C30_IdleWhileFetching ==
  /\ phase = "mounted"
  /\ jobId = "A"
  /\ enabled
  /\ last.op = "fetchOk"
  /\ inflight[<<"A", "hook">>] = 1
  /\ InFlightCount = 1
  /\ ~isLoading

====
